---- MODULE Spec2Model ----
(***************************************************************************)
(* Model of the ledger/journal grammar of src/src/main.rs, a set of        *)
(* parsers written with the `combine` parser-combinator library.           *)
(*                                                                         *)
(* A text is a sequence of characters, each a Unicode scalar value.  A     *)
(* parser is an operator from (inp, st) to a parse result, where inp is    *)
(* the whole input text and st is combine's State: the offset reached and  *)
(* its line and column.                                                    *)
(* A parse result carries combine's two-level outcome: Ok/Err and          *)
(* Consumed/Empty; a third outcome, "panic", is a Rust panic raised by an  *)
(* unwrap()/expect() inside a map closure.                                 *)
(***************************************************************************)
EXTENDS Integers, Sequences, FiniteSets, TLC

VARIABLES input, cur, last, pc

vars == <<input, cur, last, pc>>

(***************************************************************************)
(* Characters                                                              *)
(***************************************************************************)
\* A character is a Unicode scalar value, as a Rust char.  Chr(s) is the
\* character that the source writes 's', for the characters of ASCII:
\* AsciiPrintable lists U+0020..U+007E in order, with "" in the place of
\* U+0060, which a string of this notation cannot hold.
AsciiPrintable ==
    <<" ", "!", "\"", "#", "$", "%", "&", "'", "(", ")", "*", "+",
      ",", "-", ".", "/", "0", "1", "2", "3", "4", "5", "6", "7",
      "8", "9", ":", ";", "<", "=", ">", "?", "@", "A", "B", "C",
      "D", "E", "F", "G", "H", "I", "J", "K", "L", "M", "N", "O",
      "P", "Q", "R", "S", "T", "U", "V", "W", "X", "Y", "Z", "[",
      "\\", "]", "^", "_", "", "a", "b", "c", "d", "e", "f", "g",
      "h", "i", "j", "k", "l", "m", "n", "o", "p", "q", "r", "s",
      "t", "u", "v", "w", "x", "y", "z", "{", "|", "}", "~">>

Chr(s) ==
    CASE s = "\t" -> 9
      [] s = "\n" -> 10
      [] s = "\r" -> 13
      [] OTHER -> 31 + CHOOSE i \in 1..Len(AsciiPrintable) : AsciiPrintable[i] = s

\* The text that the source writes as the string of the characters of ss.
Text(ss) == [i \in 1..Len(ss) |-> Chr(ss[i])]

LF == Chr("\n")
CR == Chr("\r")
TAB == Chr("\t")
SP == Chr(" ")
DQUOTE == Chr("\"")

\* char::is_digit(10): the ASCII decimal digits.
Digit == Chr("0")..Chr("9")

\* The characters with the Unicode property Alphabetic, as ranges
\* <<first, last>>.  The property is that of the Unicode version of the
\* standard library the program is built with; these are the ranges of
\* Unicode 17.0.0 (char::UNICODE_VERSION of rustc 1.95).
AlphabeticRanges ==
    {<<65, 90>>, <<97, 122>>, <<170, 170>>, <<181, 181>>, <<186, 186>>,
     <<192, 214>>, <<216, 246>>, <<248, 705>>, <<710, 721>>, <<736, 740>>,
     <<748, 748>>, <<750, 750>>, <<837, 837>>, <<867, 884>>, <<886, 887>>,
     <<890, 893>>, <<895, 895>>, <<902, 902>>, <<904, 906>>, <<908, 908>>,
     <<910, 929>>, <<931, 1013>>, <<1015, 1153>>, <<1162, 1327>>, <<1329, 1366>>,
     <<1369, 1369>>, <<1376, 1416>>, <<1456, 1469>>, <<1471, 1471>>, <<1473, 1474>>,
     <<1476, 1477>>, <<1479, 1479>>, <<1488, 1514>>, <<1519, 1522>>, <<1552, 1562>>,
     <<1568, 1623>>, <<1625, 1631>>, <<1646, 1747>>, <<1749, 1756>>, <<1761, 1768>>,
     <<1773, 1775>>, <<1786, 1788>>, <<1791, 1791>>, <<1808, 1855>>, <<1869, 1969>>,
     <<1994, 2026>>, <<2036, 2037>>, <<2042, 2042>>, <<2048, 2071>>, <<2074, 2092>>,
     <<2112, 2136>>, <<2144, 2154>>, <<2160, 2183>>, <<2185, 2191>>, <<2199, 2199>>,
     <<2208, 2249>>, <<2260, 2271>>, <<2275, 2281>>, <<2288, 2363>>, <<2365, 2380>>,
     <<2382, 2384>>, <<2389, 2403>>, <<2417, 2435>>, <<2437, 2444>>, <<2447, 2448>>,
     <<2451, 2472>>, <<2474, 2480>>, <<2482, 2482>>, <<2486, 2489>>, <<2493, 2500>>,
     <<2503, 2504>>, <<2507, 2508>>, <<2510, 2510>>, <<2519, 2519>>, <<2524, 2525>>,
     <<2527, 2531>>, <<2544, 2545>>, <<2556, 2556>>, <<2561, 2563>>, <<2565, 2570>>,
     <<2575, 2576>>, <<2579, 2600>>, <<2602, 2608>>, <<2610, 2611>>, <<2613, 2614>>,
     <<2616, 2617>>, <<2622, 2626>>, <<2631, 2632>>, <<2635, 2636>>, <<2641, 2641>>,
     <<2649, 2652>>, <<2654, 2654>>, <<2672, 2677>>, <<2689, 2691>>, <<2693, 2701>>,
     <<2703, 2705>>, <<2707, 2728>>, <<2730, 2736>>, <<2738, 2739>>, <<2741, 2745>>,
     <<2749, 2757>>, <<2759, 2761>>, <<2763, 2764>>, <<2768, 2768>>, <<2784, 2787>>,
     <<2809, 2812>>, <<2817, 2819>>, <<2821, 2828>>, <<2831, 2832>>, <<2835, 2856>>,
     <<2858, 2864>>, <<2866, 2867>>, <<2869, 2873>>, <<2877, 2884>>, <<2887, 2888>>,
     <<2891, 2892>>, <<2902, 2903>>, <<2908, 2909>>, <<2911, 2915>>, <<2929, 2929>>,
     <<2946, 2947>>, <<2949, 2954>>, <<2958, 2960>>, <<2962, 2965>>, <<2969, 2970>>,
     <<2972, 2972>>, <<2974, 2975>>, <<2979, 2980>>, <<2984, 2986>>, <<2990, 3001>>,
     <<3006, 3010>>, <<3014, 3016>>, <<3018, 3020>>, <<3024, 3024>>, <<3031, 3031>>,
     <<3072, 3084>>, <<3086, 3088>>, <<3090, 3112>>, <<3114, 3129>>, <<3133, 3140>>,
     <<3142, 3144>>, <<3146, 3148>>, <<3157, 3158>>, <<3160, 3162>>, <<3164, 3165>>,
     <<3168, 3171>>, <<3200, 3203>>, <<3205, 3212>>, <<3214, 3216>>, <<3218, 3240>>,
     <<3242, 3251>>, <<3253, 3257>>, <<3261, 3268>>, <<3270, 3272>>, <<3274, 3276>>,
     <<3285, 3286>>, <<3292, 3294>>, <<3296, 3299>>, <<3313, 3315>>, <<3328, 3340>>,
     <<3342, 3344>>, <<3346, 3386>>, <<3389, 3396>>, <<3398, 3400>>, <<3402, 3404>>,
     <<3406, 3406>>, <<3412, 3415>>, <<3423, 3427>>, <<3450, 3455>>, <<3457, 3459>>,
     <<3461, 3478>>, <<3482, 3505>>, <<3507, 3515>>, <<3517, 3517>>, <<3520, 3526>>,
     <<3535, 3540>>, <<3542, 3542>>, <<3544, 3551>>, <<3570, 3571>>, <<3585, 3642>>,
     <<3648, 3654>>, <<3661, 3661>>, <<3713, 3714>>, <<3716, 3716>>, <<3718, 3722>>,
     <<3724, 3747>>, <<3749, 3749>>, <<3751, 3769>>, <<3771, 3773>>, <<3776, 3780>>,
     <<3782, 3782>>, <<3789, 3789>>, <<3804, 3807>>, <<3840, 3840>>, <<3904, 3911>>,
     <<3913, 3948>>, <<3953, 3971>>, <<3976, 3991>>, <<3993, 4028>>, <<4096, 4150>>,
     <<4152, 4152>>, <<4155, 4159>>, <<4176, 4239>>, <<4250, 4253>>, <<4256, 4293>>,
     <<4295, 4295>>, <<4301, 4301>>, <<4304, 4346>>, <<4348, 4680>>, <<4682, 4685>>,
     <<4688, 4694>>, <<4696, 4696>>, <<4698, 4701>>, <<4704, 4744>>, <<4746, 4749>>,
     <<4752, 4784>>, <<4786, 4789>>, <<4792, 4798>>, <<4800, 4800>>, <<4802, 4805>>,
     <<4808, 4822>>, <<4824, 4880>>, <<4882, 4885>>, <<4888, 4954>>, <<4992, 5007>>,
     <<5024, 5109>>, <<5112, 5117>>, <<5121, 5740>>, <<5743, 5759>>, <<5761, 5786>>,
     <<5792, 5866>>, <<5870, 5880>>, <<5888, 5907>>, <<5919, 5939>>, <<5952, 5971>>,
     <<5984, 5996>>, <<5998, 6000>>, <<6002, 6003>>, <<6016, 6067>>, <<6070, 6088>>,
     <<6103, 6103>>, <<6108, 6108>>, <<6176, 6264>>, <<6272, 6314>>, <<6320, 6389>>,
     <<6400, 6430>>, <<6432, 6443>>, <<6448, 6456>>, <<6480, 6509>>, <<6512, 6516>>,
     <<6528, 6571>>, <<6576, 6601>>, <<6656, 6683>>, <<6688, 6750>>, <<6753, 6772>>,
     <<6823, 6823>>, <<6847, 6848>>, <<6860, 6862>>, <<6912, 6963>>, <<6965, 6979>>,
     <<6981, 6988>>, <<7040, 7081>>, <<7084, 7087>>, <<7098, 7141>>, <<7143, 7153>>,
     <<7168, 7222>>, <<7245, 7247>>, <<7258, 7293>>, <<7296, 7306>>, <<7312, 7354>>,
     <<7357, 7359>>, <<7401, 7404>>, <<7406, 7411>>, <<7413, 7414>>, <<7418, 7418>>,
     <<7424, 7615>>, <<7635, 7668>>, <<7680, 7957>>, <<7960, 7965>>, <<7968, 8005>>,
     <<8008, 8013>>, <<8016, 8023>>, <<8025, 8025>>, <<8027, 8027>>, <<8029, 8029>>,
     <<8031, 8061>>, <<8064, 8116>>, <<8118, 8124>>, <<8126, 8126>>, <<8130, 8132>>,
     <<8134, 8140>>, <<8144, 8147>>, <<8150, 8155>>, <<8160, 8172>>, <<8178, 8180>>,
     <<8182, 8188>>, <<8305, 8305>>, <<8319, 8319>>, <<8336, 8348>>, <<8450, 8450>>,
     <<8455, 8455>>, <<8458, 8467>>, <<8469, 8469>>, <<8473, 8477>>, <<8484, 8484>>,
     <<8486, 8486>>, <<8488, 8488>>, <<8490, 8493>>, <<8495, 8505>>, <<8508, 8511>>,
     <<8517, 8521>>, <<8526, 8526>>, <<8544, 8584>>, <<9398, 9449>>, <<11264, 11492>>,
     <<11499, 11502>>, <<11506, 11507>>, <<11520, 11557>>, <<11559, 11559>>, <<11565, 11565>>,
     <<11568, 11623>>, <<11631, 11631>>, <<11648, 11670>>, <<11680, 11686>>, <<11688, 11694>>,
     <<11696, 11702>>, <<11704, 11710>>, <<11712, 11718>>, <<11720, 11726>>, <<11728, 11734>>,
     <<11736, 11742>>, <<11744, 11775>>, <<11823, 11823>>, <<12293, 12295>>, <<12321, 12329>>,
     <<12337, 12341>>, <<12344, 12348>>, <<12353, 12438>>, <<12445, 12447>>, <<12449, 12538>>,
     <<12540, 12543>>, <<12549, 12591>>, <<12593, 12686>>, <<12704, 12735>>, <<12784, 12799>>,
     <<13312, 19903>>, <<19968, 42124>>, <<42192, 42237>>, <<42240, 42508>>, <<42512, 42527>>,
     <<42538, 42539>>, <<42560, 42606>>, <<42612, 42619>>, <<42623, 42735>>, <<42775, 42783>>,
     <<42786, 42888>>, <<42891, 42972>>, <<42993, 43013>>, <<43015, 43047>>, <<43072, 43123>>,
     <<43136, 43203>>, <<43205, 43205>>, <<43250, 43255>>, <<43259, 43259>>, <<43261, 43263>>,
     <<43274, 43306>>, <<43312, 43346>>, <<43360, 43388>>, <<43392, 43442>>, <<43444, 43455>>,
     <<43471, 43471>>, <<43488, 43503>>, <<43514, 43518>>, <<43520, 43574>>, <<43584, 43597>>,
     <<43616, 43638>>, <<43642, 43710>>, <<43712, 43712>>, <<43714, 43714>>, <<43739, 43741>>,
     <<43744, 43759>>, <<43762, 43765>>, <<43777, 43782>>, <<43785, 43790>>, <<43793, 43798>>,
     <<43808, 43814>>, <<43816, 43822>>, <<43824, 43866>>, <<43868, 43881>>, <<43888, 44010>>,
     <<44032, 55203>>, <<55216, 55238>>, <<55243, 55291>>, <<63744, 64109>>, <<64112, 64217>>,
     <<64256, 64262>>, <<64275, 64279>>, <<64285, 64296>>, <<64298, 64310>>, <<64312, 64316>>,
     <<64318, 64318>>, <<64320, 64321>>, <<64323, 64324>>, <<64326, 64433>>, <<64467, 64829>>,
     <<64848, 64911>>, <<64914, 64967>>, <<65008, 65019>>, <<65136, 65140>>, <<65142, 65276>>,
     <<65313, 65338>>, <<65345, 65370>>, <<65382, 65470>>, <<65474, 65479>>, <<65482, 65487>>,
     <<65490, 65495>>, <<65498, 65500>>, <<65536, 65547>>, <<65549, 65574>>, <<65576, 65594>>,
     <<65596, 65597>>, <<65599, 65613>>, <<65616, 65629>>, <<65664, 65786>>, <<65856, 65908>>,
     <<66176, 66204>>, <<66208, 66256>>, <<66304, 66335>>, <<66349, 66378>>, <<66384, 66426>>,
     <<66432, 66461>>, <<66464, 66499>>, <<66504, 66511>>, <<66513, 66517>>, <<66560, 66717>>,
     <<66736, 66771>>, <<66776, 66811>>, <<66816, 66855>>, <<66864, 66915>>, <<66928, 66938>>,
     <<66940, 66954>>, <<66956, 66962>>, <<66964, 66965>>, <<66967, 66977>>, <<66979, 66993>>,
     <<66995, 67001>>, <<67003, 67004>>, <<67008, 67059>>, <<67072, 67382>>, <<67392, 67413>>,
     <<67424, 67431>>, <<67456, 67461>>, <<67463, 67504>>, <<67506, 67514>>, <<67584, 67589>>,
     <<67592, 67592>>, <<67594, 67637>>, <<67639, 67640>>, <<67644, 67644>>, <<67647, 67669>>,
     <<67680, 67702>>, <<67712, 67742>>, <<67808, 67826>>, <<67828, 67829>>, <<67840, 67861>>,
     <<67872, 67897>>, <<67904, 67929>>, <<67968, 68023>>, <<68030, 68031>>, <<68096, 68099>>,
     <<68101, 68102>>, <<68108, 68115>>, <<68117, 68119>>, <<68121, 68149>>, <<68192, 68220>>,
     <<68224, 68252>>, <<68288, 68295>>, <<68297, 68324>>, <<68352, 68405>>, <<68416, 68437>>,
     <<68448, 68466>>, <<68480, 68497>>, <<68608, 68680>>, <<68736, 68786>>, <<68800, 68850>>,
     <<68864, 68903>>, <<68938, 68965>>, <<68969, 68969>>, <<68975, 68997>>, <<69248, 69289>>,
     <<69291, 69292>>, <<69296, 69297>>, <<69314, 69319>>, <<69370, 69372>>, <<69376, 69404>>,
     <<69415, 69415>>, <<69424, 69445>>, <<69488, 69505>>, <<69552, 69572>>, <<69600, 69622>>,
     <<69632, 69701>>, <<69745, 69749>>, <<69760, 69816>>, <<69826, 69826>>, <<69840, 69864>>,
     <<69888, 69938>>, <<69956, 69959>>, <<69968, 70002>>, <<70006, 70006>>, <<70016, 70079>>,
     <<70081, 70084>>, <<70094, 70095>>, <<70106, 70106>>, <<70108, 70108>>, <<70144, 70161>>,
     <<70163, 70196>>, <<70199, 70199>>, <<70206, 70209>>, <<70272, 70278>>, <<70280, 70280>>,
     <<70282, 70285>>, <<70287, 70301>>, <<70303, 70312>>, <<70320, 70376>>, <<70400, 70403>>,
     <<70405, 70412>>, <<70415, 70416>>, <<70419, 70440>>, <<70442, 70448>>, <<70450, 70451>>,
     <<70453, 70457>>, <<70461, 70468>>, <<70471, 70472>>, <<70475, 70476>>, <<70480, 70480>>,
     <<70487, 70487>>, <<70493, 70499>>, <<70528, 70537>>, <<70539, 70539>>, <<70542, 70542>>,
     <<70544, 70581>>, <<70583, 70592>>, <<70594, 70594>>, <<70597, 70597>>, <<70599, 70602>>,
     <<70604, 70605>>, <<70609, 70609>>, <<70611, 70611>>, <<70656, 70721>>, <<70723, 70725>>,
     <<70727, 70730>>, <<70751, 70753>>, <<70784, 70849>>, <<70852, 70853>>, <<70855, 70855>>,
     <<71040, 71093>>, <<71096, 71102>>, <<71128, 71133>>, <<71168, 71230>>, <<71232, 71232>>,
     <<71236, 71236>>, <<71296, 71349>>, <<71352, 71352>>, <<71424, 71450>>, <<71453, 71466>>,
     <<71488, 71494>>, <<71680, 71736>>, <<71840, 71903>>, <<71935, 71942>>, <<71945, 71945>>,
     <<71948, 71955>>, <<71957, 71958>>, <<71960, 71989>>, <<71991, 71992>>, <<71995, 71996>>,
     <<71999, 72002>>, <<72096, 72103>>, <<72106, 72151>>, <<72154, 72159>>, <<72161, 72161>>,
     <<72163, 72164>>, <<72192, 72242>>, <<72245, 72254>>, <<72272, 72343>>, <<72349, 72349>>,
     <<72368, 72440>>, <<72544, 72551>>, <<72640, 72672>>, <<72704, 72712>>, <<72714, 72758>>,
     <<72760, 72766>>, <<72768, 72768>>, <<72818, 72847>>, <<72850, 72871>>, <<72873, 72886>>,
     <<72960, 72966>>, <<72968, 72969>>, <<72971, 73014>>, <<73018, 73018>>, <<73020, 73021>>,
     <<73023, 73025>>, <<73027, 73027>>, <<73030, 73031>>, <<73056, 73061>>, <<73063, 73064>>,
     <<73066, 73102>>, <<73104, 73105>>, <<73107, 73110>>, <<73112, 73112>>, <<73136, 73179>>,
     <<73440, 73462>>, <<73472, 73488>>, <<73490, 73530>>, <<73534, 73536>>, <<73648, 73648>>,
     <<73728, 74649>>, <<74752, 74862>>, <<74880, 75075>>, <<77712, 77808>>, <<77824, 78895>>,
     <<78913, 78918>>, <<78944, 82938>>, <<82944, 83526>>, <<90368, 90414>>, <<92160, 92728>>,
     <<92736, 92766>>, <<92784, 92862>>, <<92880, 92909>>, <<92928, 92975>>, <<92992, 92995>>,
     <<93027, 93047>>, <<93053, 93071>>, <<93504, 93548>>, <<93760, 93823>>, <<93856, 93880>>,
     <<93883, 93907>>, <<93952, 94026>>, <<94031, 94087>>, <<94095, 94111>>, <<94176, 94177>>,
     <<94179, 94179>>, <<94192, 94198>>, <<94208, 101589>>, <<101631, 101662>>, <<101760, 101874>>,
     <<110576, 110579>>, <<110581, 110587>>, <<110589, 110590>>, <<110592, 110882>>, <<110898, 110898>>,
     <<110928, 110930>>, <<110933, 110933>>, <<110948, 110951>>, <<110960, 111355>>, <<113664, 113770>>,
     <<113776, 113788>>, <<113792, 113800>>, <<113808, 113817>>, <<113822, 113822>>, <<119808, 119892>>,
     <<119894, 119964>>, <<119966, 119967>>, <<119970, 119970>>, <<119973, 119974>>, <<119977, 119980>>,
     <<119982, 119993>>, <<119995, 119995>>, <<119997, 120003>>, <<120005, 120069>>, <<120071, 120074>>,
     <<120077, 120084>>, <<120086, 120092>>, <<120094, 120121>>, <<120123, 120126>>, <<120128, 120132>>,
     <<120134, 120134>>, <<120138, 120144>>, <<120146, 120485>>, <<120488, 120512>>, <<120514, 120538>>,
     <<120540, 120570>>, <<120572, 120596>>, <<120598, 120628>>, <<120630, 120654>>, <<120656, 120686>>,
     <<120688, 120712>>, <<120714, 120744>>, <<120746, 120770>>, <<120772, 120779>>, <<122624, 122654>>,
     <<122661, 122666>>, <<122880, 122886>>, <<122888, 122904>>, <<122907, 122913>>, <<122915, 122916>>,
     <<122918, 122922>>, <<122928, 122989>>, <<123023, 123023>>, <<123136, 123180>>, <<123191, 123197>>,
     <<123214, 123214>>, <<123536, 123565>>, <<123584, 123627>>, <<124112, 124139>>, <<124368, 124397>>,
     <<124400, 124400>>, <<124608, 124638>>, <<124640, 124661>>, <<124670, 124671>>, <<124896, 124902>>,
     <<124904, 124907>>, <<124909, 124910>>, <<124912, 124926>>, <<124928, 125124>>, <<125184, 125251>>,
     <<125255, 125255>>, <<125259, 125259>>, <<126464, 126467>>, <<126469, 126495>>, <<126497, 126498>>,
     <<126500, 126500>>, <<126503, 126503>>, <<126505, 126514>>, <<126516, 126519>>, <<126521, 126521>>,
     <<126523, 126523>>, <<126530, 126530>>, <<126535, 126535>>, <<126537, 126537>>, <<126539, 126539>>,
     <<126541, 126543>>, <<126545, 126546>>, <<126548, 126548>>, <<126551, 126551>>, <<126553, 126553>>,
     <<126555, 126555>>, <<126557, 126557>>, <<126559, 126559>>, <<126561, 126562>>, <<126564, 126564>>,
     <<126567, 126570>>, <<126572, 126578>>, <<126580, 126583>>, <<126585, 126588>>, <<126590, 126590>>,
     <<126592, 126601>>, <<126603, 126619>>, <<126625, 126627>>, <<126629, 126633>>, <<126635, 126651>>,
     <<127280, 127305>>, <<127312, 127337>>, <<127344, 127369>>, <<131072, 173791>>, <<173824, 178205>>,
     <<178208, 183981>>, <<183984, 191456>>, <<191472, 192093>>, <<194560, 195101>>, <<196608, 201546>>,
     <<201552, 210041>>}

\* The characters of the Unicode general category Number (Nd, Nl, No;
\* Unicode 17.0.0), as ranges <<first, last>>.
NumberRanges ==
    {<<48, 57>>, <<178, 179>>, <<185, 185>>, <<188, 190>>, <<1632, 1641>>,
     <<1776, 1785>>, <<1984, 1993>>, <<2406, 2415>>, <<2534, 2543>>, <<2548, 2553>>,
     <<2662, 2671>>, <<2790, 2799>>, <<2918, 2927>>, <<2930, 2935>>, <<3046, 3058>>,
     <<3174, 3183>>, <<3192, 3198>>, <<3302, 3311>>, <<3416, 3422>>, <<3430, 3448>>,
     <<3558, 3567>>, <<3664, 3673>>, <<3792, 3801>>, <<3872, 3891>>, <<4160, 4169>>,
     <<4240, 4249>>, <<4969, 4988>>, <<5870, 5872>>, <<6112, 6121>>, <<6128, 6137>>,
     <<6160, 6169>>, <<6470, 6479>>, <<6608, 6618>>, <<6784, 6793>>, <<6800, 6809>>,
     <<6992, 7001>>, <<7088, 7097>>, <<7232, 7241>>, <<7248, 7257>>, <<8304, 8304>>,
     <<8308, 8313>>, <<8320, 8329>>, <<8528, 8578>>, <<8581, 8585>>, <<9312, 9371>>,
     <<9450, 9471>>, <<10102, 10131>>, <<11517, 11517>>, <<12295, 12295>>, <<12321, 12329>>,
     <<12344, 12346>>, <<12690, 12693>>, <<12832, 12841>>, <<12872, 12879>>, <<12881, 12895>>,
     <<12928, 12937>>, <<12977, 12991>>, <<42528, 42537>>, <<42726, 42735>>, <<43056, 43061>>,
     <<43216, 43225>>, <<43264, 43273>>, <<43472, 43481>>, <<43504, 43513>>, <<43600, 43609>>,
     <<44016, 44025>>, <<65296, 65305>>, <<65799, 65843>>, <<65856, 65912>>, <<65930, 65931>>,
     <<66273, 66299>>, <<66336, 66339>>, <<66369, 66369>>, <<66378, 66378>>, <<66513, 66517>>,
     <<66720, 66729>>, <<67672, 67679>>, <<67705, 67711>>, <<67751, 67759>>, <<67835, 67839>>,
     <<67862, 67867>>, <<68028, 68029>>, <<68032, 68047>>, <<68050, 68095>>, <<68160, 68168>>,
     <<68221, 68222>>, <<68253, 68255>>, <<68331, 68335>>, <<68440, 68447>>, <<68472, 68479>>,
     <<68521, 68527>>, <<68858, 68863>>, <<68912, 68921>>, <<68928, 68937>>, <<69216, 69246>>,
     <<69405, 69414>>, <<69457, 69460>>, <<69573, 69579>>, <<69714, 69743>>, <<69872, 69881>>,
     <<69942, 69951>>, <<70096, 70105>>, <<70113, 70132>>, <<70384, 70393>>, <<70736, 70745>>,
     <<70864, 70873>>, <<71248, 71257>>, <<71360, 71369>>, <<71376, 71395>>, <<71472, 71483>>,
     <<71904, 71922>>, <<72016, 72025>>, <<72688, 72697>>, <<72784, 72812>>, <<73040, 73049>>,
     <<73120, 73129>>, <<73184, 73193>>, <<73552, 73561>>, <<73664, 73684>>, <<74752, 74862>>,
     <<90416, 90425>>, <<92768, 92777>>, <<92864, 92873>>, <<93008, 93017>>, <<93019, 93025>>,
     <<93552, 93561>>, <<93824, 93846>>, <<94196, 94198>>, <<118000, 118009>>, <<119488, 119507>>,
     <<119520, 119539>>, <<119648, 119672>>, <<120782, 120831>>, <<123200, 123209>>, <<123632, 123641>>,
     <<124144, 124153>>, <<124401, 124410>>, <<125127, 125135>>, <<125264, 125273>>, <<126065, 126123>>,
     <<126125, 126127>>, <<126129, 126132>>, <<126209, 126253>>, <<126255, 126269>>, <<127232, 127244>>,
     <<130032, 130041>>}

\* char::is_alphabetic
Letter == UNION {r[1]..r[2] : r \in AlphabeticRanges}

\* char::is_numeric
Numeric == UNION {r[1]..r[2] : r \in NumberRanges}

\* char::to_digit(10): the value of a decimal digit, -1 standing for None.
to_digit(c) == IF c \in Digit THEN c - Chr("0") ELSE -1

\* The predicates handed to satisfy(), one per closure of the source.
InClass(cls, c) ==
    CASE cls = "whitespace" -> c = SP \/ c = TAB
      [] cls = "digit"      -> c \in Digit
      [] cls = "code"       -> c # CR /\ c # LF /\ c # Chr(")")
      [] cls = "payee"      -> c # Chr(";") /\ c # LF /\ c # CR
      [] cls = "comment"    -> c # CR /\ c # LF
      [] cls = "alpha_num"  -> c \in Letter \/ c \in Numeric
      [] cls = "qty_rest"   -> c \in Digit \/ c = Chr(",") \/ c = Chr(".")
      [] cls = "quoted"     -> c # DQUOTE /\ c # CR /\ c # LF
      [] cls = "unquoted"   -> c \notin (Digit \cup {Chr("-"), Chr(";"), SP, DQUOTE, TAB, CR, LF})

(***************************************************************************)
(* combine: State, position update and parse results                       *)
(***************************************************************************)
\* State::new: offset 0, line 1, column 1.
StartState == [pos |-> 0, line |-> 1, column |-> 1]

\* Positioner for char: a line feed starts a new line, any other character
\* advances the column.
Advance(st, c) ==
    IF c = LF
    THEN [pos |-> st.pos + 1, line |-> st.line + 1, column |-> 1]
    ELSE [pos |-> st.pos + 1, line |-> st.line, column |-> st.column + 1]

NoVal == "none"

Ok(v, st, consumed) == [kind |-> "ok", val |-> v, st |-> st, consumed |-> consumed]
Err(st, consumed)   == [kind |-> "err", val |-> NoVal, st |-> st, consumed |-> consumed]
Panic(st)           == [kind |-> "panic", val |-> NoVal, st |-> st, consumed |-> TRUE]

IsOk(r) == r.kind = "ok"
IsErr(r) == r.kind = "err"

\* Option<T>: None is the empty sequence, Some(v) the one-element sequence.
None == <<>>
Some(v) == <<v>>

\* n, the result of a parser run where r stopped, as the result of the two
\* in a row: they have consumed input as soon as one of them has.
Follow(r, n) == [n EXCEPT !.consumed = r.consumed \/ n.consumed]

\* A tuple parser (p1, .., pn) runs its parsers in a row and yields the
\* tuple of their values.  Tuple(st) is the tuple of no parser at st, and
\* And(t, n) adds to the tuple t the result n of the next parser, run from
\* t.st.
Tuple(st) == Ok(<<>>, st, FALSE)

And(t, n) ==
    IF ~IsOk(t) THEN t
    ELSE IF IsOk(n) THEN Ok(Append(t.val, n.val), n.st, t.consumed \/ n.consumed)
    ELSE Follow(t, n)

\* p.skip(q): r is the result of p and n the result of q run from r.st; the
\* value is p's.
Skip(r, n) ==
    IF ~IsOk(r) THEN r
    ELSE IF IsOk(n) THEN Ok(r.val, n.st, r.consumed \/ n.consumed)
    ELSE Follow(r, n)

\* p.map(|_| v)
Map(r, v) == IF IsOk(r) THEN [r EXCEPT !.val = v] ELSE r

\* ParseError::merge: the error further into the input wins.
Merge(e1, e2) == IF e2.st.pos > e1.st.pos THEN e2 ELSE e1

OrMutBacktrack(r1, r2) ==
    IF IsOk(r1) THEN r1
    ELSE IF IsOk(r2) THEN r2
    ELSE IF IsErr(r1) /\ IsErr(r2) THEN [r2 EXCEPT !.consumed = FALSE]
    ELSE r1

\* p.or(q): q is tried only if p failed without consuming input.
Or(r1, r2) ==
    IF IsOk(r1) THEN r1
    ELSE IF r1.kind = "panic" \/ r1.consumed THEN r1
    ELSE IF IsOk(r2) THEN r2
    ELSE IF r2.kind = "panic" \/ r2.consumed THEN r2
    ELSE Merge(r1, r2)

\* optional(p): an Empty failure of p becomes None at the starting position.
Optional(r, st) ==
    IF IsOk(r) THEN [r EXCEPT !.val = Some(r.val)]
    ELSE IF r.kind = "panic" \/ r.consumed THEN r
    ELSE Ok(None, st, FALSE)

\* satisfy(pred): one character of the class.
Satisfy(cls, inp, st) ==
    IF st.pos < Len(inp) /\ InClass(cls, inp[st.pos + 1])
    THEN Ok(inp[st.pos + 1], Advance(st, inp[st.pos + 1]), TRUE)
    ELSE Err(st, FALSE)

\* char(c)
Char(c, inp, st) ==
    IF st.pos < Len(inp) /\ inp[st.pos + 1] = c
    THEN Ok(c, Advance(st, c), TRUE)
    ELSE Err(st, FALSE)

\* The state after the longest run of characters of the class.
RECURSIVE ManyEnd(_, _, _)
ManyEnd(cls, inp, st) ==
    IF st.pos < Len(inp) /\ InClass(cls, inp[st.pos + 1])
    THEN ManyEnd(cls, inp, Advance(st, inp[st.pos + 1]))
    ELSE st

ManyTo(inp, st, e) == Ok(SubSeq(inp, st.pos + 1, e.pos), e, e.pos > st.pos)

Many1To(inp, st, e) ==
    IF e.pos > st.pos THEN Ok(SubSeq(inp, st.pos + 1, e.pos), e, TRUE)
    ELSE Err(st, FALSE)

\* many(satisfy(pred)): the longest run of characters of the class.
Many(cls, inp, st) == ManyTo(inp, st, ManyEnd(cls, inp, st))

\* many1(satisfy(pred)): as many, but at least one character.
Many1(cls, inp, st) == Many1To(inp, st, ManyEnd(cls, inp, st))

\* The next parser of a tuple, for the character parsers.
AndChar(t, c, inp) == And(t, Char(c, inp, t.st))
AndSatisfy(t, cls, inp) == And(t, Satisfy(cls, inp, t.st))
AndMany(t, cls, inp) == And(t, Many(cls, inp, t.st))
AndMany1(t, cls, inp) == And(t, Many1(cls, inp, t.st))

(***************************************************************************)
(* Primitive lexers                                                        *)
(***************************************************************************)
line_numberMutColumn(inp, st) == Ok(st.column, st, FALSE)

line_number(inp, st) == Ok(st.line, st, FALSE)

whitespace(inp, st) == Many1("whitespace", inp, st)

\* p.skip(parser(whitespace))
skip_whitespace(r, inp) == Skip(r, whitespace(inp, r.st))

\* optional(parser(whitespace)) as the next parser of a tuple.
and_optional_whitespace(t, inp) ==
    And(t, Optional(whitespace(inp, t.st), t.st))

\* crlf(): CR then LF, yielding the LF.
crlf(inp, st) == Map(AndChar(AndChar(Tuple(st), CR, inp), LF, inp), LF)

\* newline(): LF.
newline(inp, st) == Char(LF, inp, st)

line_endingMutBareCr(inp, st) ==
    Or(Map(Char(CR, inp, st), <<LF>>), Map(newline(inp, st), <<LF>>))

line_ending(inp, st) ==
    Or(Map(crlf(inp, st), <<LF>>), Map(newline(inp, st), <<LF>>))

\* The result of expect("digit") on both digits: -1 stands for the panic.
two_digits_to_int(x, y) ==
    IF to_digit(x) < 0 \/ to_digit(y) < 0 THEN -1
    ELSE to_digit(x) * 10 + to_digit(y)

\* .map(two_digits_to_int)
two_digits_map(t) ==
    IF ~IsOk(t) THEN t
    ELSE IF two_digits_to_int(t.val[1], t.val[2]) < 0 THEN Panic(t.st)
    ELSE Map(t, two_digits_to_int(t.val[1], t.val[2]))

two_digits(inp, st) ==
    two_digits_map(AndSatisfy(AndSatisfy(Tuple(st), "digit", inp), "digit", inp))

and_two_digits(t, inp) == And(t, two_digits(inp, t.st))

(***************************************************************************)
(* Date                                                                    *)
(***************************************************************************)
I32Max == 2147483647

\* str::parse::<i32> on a text of decimal digits: -1 stands for Err (the
\* empty text, or a value above i32::MAX).
RECURSIVE ParseI32From(_, _, _)
ParseI32From(ds, i, acc) ==
    IF i > Len(ds) THEN acc
    ELSE IF acc > (I32Max - to_digit(ds[i])) \div 10 THEN -1
    ELSE ParseI32From(ds, i + 1, acc * 10 + to_digit(ds[i]))

ParseI32(ds) == IF Len(ds) = 0 THEN -1 ELSE ParseI32From(ds, 1, 0)

\* The closure of date: year.parse().unwrap() panics on Err.
date_map(t) ==
    IF ~IsOk(t) THEN t
    ELSE IF ParseI32(t.val[1]) < 0 THEN Panic(t.st)
    ELSE Map(t, [year |-> ParseI32(t.val[1]), month |-> t.val[3], day |-> t.val[5]])

date(inp, st) ==
    LET year  == AndMany(Tuple(st), "digit", inp)
        dash1 == AndChar(year, Chr("-"), inp)
        month == and_two_digits(dash1, inp)
        dash2 == AndChar(month, Chr("-"), inp)
        day   == and_two_digits(dash2, inp)
    IN  date_map(day)

\* parser(date).skip(parser(whitespace))
date_then_whitespace(inp, st) == skip_whitespace(date(inp, st), inp)

and_date_then_whitespace(t, inp) == And(t, date_then_whitespace(inp, t.st))

(***************************************************************************)
(* Status, code, payee, comment, header                                    *)
(***************************************************************************)
status(inp, st) ==
    Or(Map(Char(Chr("*"), inp, st), "Cleared"), Map(Char(Chr("!"), inp, st), "Uncleared"))

\* parser(status).skip(parser(whitespace))
status_then_whitespace(inp, st) == skip_whitespace(status(inp, st), inp)

\* .map(|(_, code, _)| code)
code_map(t) == IF IsOk(t) THEN Map(t, t.val[2]) ELSE t

code(inp, st) ==
    LET open  == AndChar(Tuple(st), Chr("("), inp)
        body  == AndMany(open, "code", inp)
        close == AndChar(body, Chr(")"), inp)
    IN  code_map(close)

payee(inp, st) == Many1("payee", inp, st)

\* .map(|(_, payee)| payee)
comment_map(t) == IF IsOk(t) THEN Map(t, t.val[2]) ELSE t

comment(inp, st) ==
    comment_map(AndMany(AndChar(Tuple(st), Chr(";"), inp), "comment", inp))

code_then_whitespaceMutNoSkip(inp, st) == code(inp, st)

\* parser(code).skip(parser(whitespace))
code_then_whitespace(inp, st) == skip_whitespace(code(inp, st), inp)

\* The parsers of header's tuple, each run where the tuple so far stopped.
and_line_number(t, inp) == And(t, line_number(inp, t.st))
and_status_then_whitespace(t, inp) == And(t, status_then_whitespace(inp, t.st))
and_optional_code(t, inp) ==
    And(t, Optional(code_then_whitespace(inp, t.st), t.st))
and_payee(t, inp) == And(t, payee(inp, t.st))
and_optional_comment(t, inp) == And(t, Optional(comment(inp, t.st), t.st))

\* The closure of header.
header_map(t) ==
    IF IsOk(t)
    THEN Map(t, [line_number |-> t.val[1], date |-> t.val[2], status |-> t.val[3],
                 code |-> t.val[4], payee |-> t.val[5], comment |-> t.val[6]])
    ELSE t

header(inp, st) ==
    LET line_num == and_line_number(Tuple(st), inp)
        date_    == and_date_then_whitespace(line_num, inp)
        status_  == and_status_then_whitespace(date_, inp)
        code_    == and_optional_code(status_, inp)
        payee_   == and_payee(code_, inp)
        comment_ == and_optional_comment(payee_, inp)
    IN  header_map(comment_)

(***************************************************************************)
(* Account path                                                            *)
(***************************************************************************)
sub_account(inp, st) == Many1("alpha_num", inp, st)

and_sub_account(t, inp) == And(t, sub_account(inp, t.st))

\* The tail of sep_by1: separator and element, again and again until the
\* pair fails; an Empty failure ends the sequence, a Consumed failure fails
\* the parse.  AccountStep decides on the result e of one more pair.
RECURSIVE AccountRest(_, _, _)
AccountStep(inp, st, acc, e) ==
    IF IsOk(e) THEN AccountRest(inp, e.st, Append(acc, e.val[2]))
    ELSE IF e.kind = "panic" \/ e.consumed THEN e
    ELSE Ok(acc, st, FALSE)

AccountRest(inp, st, acc) ==
    AccountStep(inp, st, acc, and_sub_account(AndChar(Tuple(st), Chr(":"), inp), inp))

\* sep_by1 after its first element f.
account_after(f, inp) ==
    IF IsOk(f) THEN Follow(f, AccountRest(inp, f.st, <<f.val>>)) ELSE f

account(inp, st) == account_after(sub_account(inp, st), inp)

(***************************************************************************)
(* Quantity, symbol, amount                                                *)
(***************************************************************************)
\* str::replace(",", "")
RECURSIVE StripCommas(_)
StripCommas(t) ==
    IF t = <<>> THEN <<>>
    ELSE IF Head(t) = Chr(",") THEN StripCommas(Tail(t))
    ELSE <<Head(t)>> \o StripCommas(Tail(t))

\* The closure on optional(char('-')): "-" or "".
neg_sign_map(r) ==
    IF IsOk(r) THEN Map(r, IF r.val # None THEN <<Chr("-")>> ELSE <<>>) ELSE r

neg_sign(inp, st) == neg_sign_map(Optional(Char(Chr("-"), inp, st), st))

and_neg_sign(t, inp) == And(t, neg_sign(inp, t.st))

quantity_mapMutKeepCommas(t) ==
    IF IsOk(t) THEN Map(t, t.val[1] \o <<t.val[2]>> \o t.val[3]) ELSE t

\* The closure of quantity: format!, then replace.
quantity_map(t) ==
    IF IsOk(t) THEN Map(t, StripCommas(t.val[1] \o <<t.val[2]>> \o t.val[3])) ELSE t

quantity(inp, st) ==
    LET sign  == and_neg_sign(Tuple(st), inp)
        first == AndSatisfy(sign, "digit", inp)
        rest  == AndMany(first, "qty_rest", inp)
    IN  quantity_map(rest)

\* The closure of quoted_symbol.
quoted_symbol_map(t) ==
    IF IsOk(t) THEN Map(t, [value |-> t.val[2], quoted |-> TRUE]) ELSE t

quoted_symbol(inp, st) ==
    LET open  == AndChar(Tuple(st), DQUOTE, inp)
        body  == AndMany1(open, "quoted", inp)
        close == AndChar(body, DQUOTE, inp)
    IN  quoted_symbol_map(close)

\* The closure of unquoted_symbol.
unquoted_symbol_map(r) ==
    IF IsOk(r) THEN Map(r, [value |-> r.val, quoted |-> FALSE]) ELSE r

unquoted_symbolMutDigits(inp, st) ==
    unquoted_symbol_map(Many1("payee", inp, st))

unquoted_symbol(inp, st) == unquoted_symbol_map(Many1("unquoted", inp, st))

symbol(inp, st) == Or(quoted_symbol(inp, st), unquoted_symbol(inp, st))

and_symbol(t, inp) == And(t, symbol(inp, t.st))
and_quantity(t, inp) == And(t, quantity(inp, t.st))

amount_symbol_then_quantity_mapMutFormat(t) ==
    IF IsOk(t)
    THEN Map(t, [value |-> t.val[3], symbol |-> t.val[1],
                 format |-> IF t.val[2] # None THEN "SymbolLeftNoSpace"
                            ELSE "SymbolLeftWithSpace"])
    ELSE t

\* The closure of amount_symbol_then_quantity.
amount_symbol_then_quantity_map(t) ==
    IF IsOk(t)
    THEN Map(t, [value |-> t.val[3], symbol |-> t.val[1],
                 format |-> IF t.val[2] # None THEN "SymbolLeftWithSpace"
                            ELSE "SymbolLeftNoSpace"])
    ELSE t

amount_symbol_then_quantity(inp, st) ==
    LET symbol_   == and_symbol(Tuple(st), inp)
        space     == and_optional_whitespace(symbol_, inp)
        quantity_ == and_quantity(space, inp)
    IN  amount_symbol_then_quantity_map(quantity_)

\* The closure of amount_quantity_then_symbol.
amount_quantity_then_symbol_map(t) ==
    IF IsOk(t)
    THEN Map(t, [value |-> t.val[1], symbol |-> t.val[3],
                 format |-> IF t.val[2] # None THEN "SymbolRightWithSpace"
                            ELSE "SymbolRightNoSpace"])
    ELSE t

amount_quantity_then_symbol(inp, st) ==
    LET quantity_ == and_quantity(Tuple(st), inp)
        space     == and_optional_whitespace(quantity_, inp)
        symbol_   == and_symbol(space, inp)
    IN  amount_quantity_then_symbol_map(symbol_)

amount(inp, st) ==
    Or(amount_symbol_then_quantity(inp, st), amount_quantity_then_symbol(inp, st))

(***************************************************************************)
(* Price and price database                                                *)
(***************************************************************************)
\* char('P').skip(parser(whitespace))
P_then_whitespace(inp, st) == skip_whitespace(Char(Chr("P"), inp, st), inp)

\* parser(symbol).skip(parser(whitespace))
symbol_then_whitespace(inp, st) == skip_whitespace(symbol(inp, st), inp)

and_P_then_whitespace(t, inp) == And(t, P_then_whitespace(inp, t.st))
and_symbol_then_whitespace(t, inp) == And(t, symbol_then_whitespace(inp, t.st))
and_amount(t, inp) == And(t, amount(inp, t.st))

\* The closure of price.
price_map(t) ==
    IF IsOk(t)
    THEN Map(t, [date |-> t.val[2], symbol |-> t.val[3], amount |-> t.val[4]])
    ELSE t

price(inp, st) ==
    LET p_      == and_P_then_whitespace(Tuple(st), inp)
        date_   == and_date_then_whitespace(p_, inp)
        symbol_ == and_symbol_then_whitespace(date_, inp)
        amount_ == and_amount(symbol_, inp)
    IN  price_map(amount_)

and_price(t, inp) == And(t, price(inp, t.st))
and_line_ending(t, inp) == And(t, line_ending(inp, t.st))

\* The tail of sep_by1(price, line_ending), as for account.
RECURSIVE PriceDbRest(_, _, _)
PriceDbStepMutOrder(inp, st, acc, e) ==
    IF IsOk(e) THEN PriceDbRest(inp, e.st, <<e.val[2]>> \o acc)
    ELSE IF e.kind = "panic" \/ e.consumed THEN e
    ELSE Ok(acc, st, FALSE)

PriceDbStep(inp, st, acc, e) ==
    IF IsOk(e) THEN PriceDbRest(inp, e.st, Append(acc, e.val[2]))
    ELSE IF e.kind = "panic" \/ e.consumed THEN e
    ELSE Ok(acc, st, FALSE)

PriceDbRest(inp, st, acc) ==
    PriceDbStep(inp, st, acc, and_price(and_line_ending(Tuple(st), inp), inp))

\* sep_by1 after its first element f.
price_db_after(f, inp) ==
    IF IsOk(f) THEN Follow(f, PriceDbRest(inp, f.st, <<f.val>>)) ELSE f

\* sep_by1(price, line_ending)
price_db1(inp, st) == price_db_after(price(inp, st), inp)

\* sep_by: sep_by1, or the empty sequence when sep_by1 fails Empty.
price_db(inp, st) == Or(price_db1(inp, st), Ok(<<>>, st, FALSE))

(***************************************************************************)
(* Input texts                                                             *)
(***************************************************************************)
MaxAmountLen == 4
MaxLineLen == 4
MaxDateTail == 6
MaxLead == 1
MaxPayeeLen == 2
MaxRecords == 2

\* All texts of at most n characters of the alphabet.
Strings(alphabet, n) == UNION {[1..k -> alphabet] : k \in 0..n}

RECURSIVE Concat(_)
Concat(ts) == IF ts = <<>> THEN <<>> ELSE Head(ts) \o Concat(Tail(ts))

\* The last is U+03BB, a letter outside ASCII.
AmountAlphabet ==
    {Chr("$"), DQUOTE, SP, Chr("1"), Chr(","), Chr("."), Chr("-"), 955}
AmountInputs == Strings(AmountAlphabet, MaxAmountLen)

LineAlphabet == {CR, LF, Chr("x")}
LineInputs == Strings(LineAlphabet, MaxLineLen)

\* Year texts: none, leading zeros, four digits, i32::MAX and i32::MAX + 1.
YearTexts ==
    {<<>>, Text(<<"0">>), Text(<<"0", "7">>), Text(<<"2", "0", "1", "5">>),
     Text(<<"2", "1", "4", "7", "4", "8", "3", "6", "4", "7">>),
     Text(<<"2", "1", "4", "7", "4", "8", "3", "6", "4", "8">>)}
DateAlphabet == {Chr("-"), Chr("0"), Chr("1"), Chr("3")}
DateInputs == {y \o t : y \in YearTexts, t \in Strings(DateAlphabet, MaxDateTail)}

LineEndings == {<<LF>>, <<CR, LF>>}
Leads == {Concat(ls) : ls \in Strings(LineEndings, MaxLead)}
HeaderDate == Text(<<"2", "0", "1", "5", "-", "1", "0", "-", "2", "0">>)
StatusTexts == {Text(<<"*">>), Text(<<"!">>)}
CodeParts == {<<>>, Text(<<"(", ")", " ">>), Text(<<"(", "a", ")", "\t", " ">>)}
PayeeAlphabet == {Chr("P"), Chr("("), Chr(")"), SP}
PayeeTexts == Strings(PayeeAlphabet, MaxPayeeLen)
CommentParts == {<<>>, Text(<<";">>), Text(<<";", " ", "c">>)}
HeaderTails == {<<>>, Text(<<"\r", "\n", "x">>)}
HeaderInputs ==
    {lead \o HeaderDate \o <<SP>> \o s \o <<SP>> \o c \o p \o m \o t :
        lead \in Leads, s \in StatusTexts, c \in CodeParts, p \in PayeeTexts,
        m \in CommentParts, t \in HeaderTails}

RecordTexts ==
    {Text(<<"P", " ", "2", "0", "1", "5", "-", "1", "0", "-", "2", "3", " ",
            "\"", "M", "\"", " ", "$", "5", ".", "4", "2">>),
     Text(<<"P", "\t", "2", "0", "1", "5", "-", "1", "0", "-", "2", "5", " ",
            "A", " ", "1", ",", "3", " ", "$">>),
     Text(<<"P", " ", "7", "-", "1", "3", "-", "0", "0", " ", "$", " ", "-",
            "1", "\"", "M", "\"">>),
     Text(<<"P", " ", "7", "-", "0", "1", "-", "0", "2", " ", "$">>)}
DbTails ==
    {<<>>, Text(<<"\n">>), Text(<<"\r", "\n">>), Text(<<"\n", "x">>),
     Text(<<"x">>), Text(<<"\r">>),
     Text(<<"\n", "P", " ", "-", "0", "1", "-", "0", "2", " ", "$", "1">>)}

\* n records, each but the first preceded by a line ending.
RECURSIVE DbBodies(_)
DbBodies(n) ==
    IF n = 0 THEN {<<>>}
    ELSE IF n = 1 THEN RecordTexts
    ELSE {b \o l \o r : b \in DbBodies(n - 1), l \in LineEndings, r \in RecordTexts}

DbInputs == {b \o t : b \in UNION {DbBodies(n) : n \in 0..MaxRecords}, t \in DbTails}

(***************************************************************************)
(* The caller hands a text to one parser with parse(), which starts it in  *)
(* State::new(text): offset 0, line 1, column 1.  The parse gives back a   *)
(* value and the rest of the text, or a failure; a panic ends the process. *)
(***************************************************************************)
NoParse == [op |-> "none", start |-> StartState, res |-> Ok(NoVal, StartState, FALSE)]

InitWith(inputs) ==
    /\ input \in inputs
    /\ cur = StartState
    /\ last = NoParse
    /\ pc = "ready"

\* The States a parser function can be handed for a text when the line
\* endings before it have been read: State::new(text), and the State that
\* line_ending leaves from each of these.
RECURSIVE SkippedFrom(_, _)
SkippedStep(inp, st, r) ==
    IF IsOk(r) THEN {st} \cup SkippedFrom(inp, r.st) ELSE {st}

SkippedFrom(inp, st) == SkippedStep(inp, st, line_ending(inp, st))

\* A parser function applied to a State of that kind: fn f(input: State<I>).
InitAt(inputs) ==
    /\ input \in inputs
    /\ cur \in SkippedFrom(input, StartState)
    /\ last = NoParse
    /\ pc = "ready"

Run(name, r) ==
    /\ pc = "ready"
    /\ last' = [op |-> name, start |-> cur, res |-> r]
    /\ cur' = IF IsOk(r) THEN r.st ELSE cur
    /\ pc' = IF r.kind = "panic" THEN "aborted" ELSE "done"
    /\ UNCHANGED input

RunLineNumber == Run("line_number", line_number(input, cur))
RunWhitespace == Run("whitespace", whitespace(input, cur))
RunLineEnding == Run("line_ending", line_ending(input, cur))
RunTwoDigits == Run("two_digits", two_digits(input, cur))
RunDate == Run("date", date(input, cur))
RunStatus == Run("status", status(input, cur))
RunCode == Run("code", code(input, cur))
RunPayee == Run("payee", payee(input, cur))
RunComment == Run("comment", comment(input, cur))
RunHeader == Run("header", header(input, cur))
RunSubAccount == Run("sub_account", sub_account(input, cur))
RunAccount == Run("account", account(input, cur))
RunQuantity == Run("quantity", quantity(input, cur))
RunQuotedSymbol == Run("quoted_symbol", quoted_symbol(input, cur))
RunUnquotedSymbol == Run("unquoted_symbol", unquoted_symbol(input, cur))
RunSymbol == Run("symbol", symbol(input, cur))
RunAmountSymbolThenQuantity ==
    Run("amount_symbol_then_quantity", amount_symbol_then_quantity(input, cur))
RunAmountQuantityThenSymbol ==
    Run("amount_quantity_then_symbol", amount_quantity_then_symbol(input, cur))
RunAmount == Run("amount", amount(input, cur))
RunPrice == Run("price", price(input, cur))
RunPriceDb == Run("price_db", price_db(input, cur))

Next ==
    \/ RunLineNumber
    \/ RunWhitespace
    \/ RunLineEnding
    \/ RunTwoDigits
    \/ RunDate
    \/ RunStatus
    \/ RunCode
    \/ RunPayee
    \/ RunComment
    \/ RunHeader
    \/ RunSubAccount
    \/ RunAccount
    \/ RunQuantity
    \/ RunQuotedSymbol
    \/ RunUnquotedSymbol
    \/ RunSymbol
    \/ RunAmountSymbolThenQuantity
    \/ RunAmountQuantityThenSymbol
    \/ RunAmount
    \/ RunPrice
    \/ RunPriceDb

Init == InitWith(AmountInputs)
InitLines == InitWith(LineInputs)
InitDate == InitWith(DateInputs)
InitHeader == InitWith(HeaderInputs)
InitDb == InitWith(DbInputs)
InitHeaderAt == InitAt(HeaderInputs)

Spec == Init /\ [][Next]_vars
SpecLines == InitLines /\ [][Next]_vars
SpecDate == InitDate /\ [][Next]_vars
SpecHeader == InitHeader /\ [][Next]_vars
SpecDb == InitDb /\ [][Next]_vars
SpecHeaderAt == InitHeaderAt /\ [][Next]_vars

(***************************************************************************)
(* Vocabulary of the properties                                            *)
(***************************************************************************)
\* The text the last parse consumed.
ConsumedText == SubSeq(input, last.start.pos + 1, last.res.st.pos)

\* The input from the place where the last parse started.
Rest == SubSeq(input, last.start.pos + 1, Len(input))

Ran(name) == last.op = name
Succeeded(name) == last.op = name /\ last.res.kind = "ok"

WithoutCommas(t) == SelectSeq(t, LAMBDA c : c # Chr(","))

AllIn(t, S) == \A i \in 1..Len(t) : t[i] \in S
NoneIn(t, S) == \A i \in 1..Len(t) : t[i] \notin S

\* The grammar of section 4.7, stated on texts.
IsSpaceText(t) == AllIn(t, {SP, TAB})

IsQuantityText(t) ==
    LET d == IF Len(t) > 0 /\ t[1] = Chr("-") THEN Tail(t) ELSE t
    IN  /\ Len(d) > 0
        /\ d[1] \in Digit
        /\ AllIn(d, Digit \cup {Chr(","), Chr(".")})

IsQuotedSymbolText(t) ==
    /\ Len(t) >= 3
    /\ t[1] = DQUOTE
    /\ t[Len(t)] = DQUOTE
    /\ NoneIn(SubSeq(t, 2, Len(t) - 1), {DQUOTE, CR, LF})

IsUnquotedSymbolText(t) ==
    /\ Len(t) >= 1
    /\ NoneIn(t, Digit \cup {Chr("-"), Chr(";"), SP, DQUOTE, TAB, CR, LF})

IsSymbolText(t) == IsQuotedSymbolText(t) \/ IsUnquotedSymbolText(t)

SymbolOfText(t) ==
    IF t[1] = DQUOTE
    THEN [value |-> SubSeq(t, 2, Len(t) - 1), quoted |-> TRUE]
    ELSE [value |-> t, quoted |-> FALSE]

\* The ways to read t as symbol, spaces, quantity: the symbol is the first i
\* characters, the spaces run to j.
SymbolLeftSplits(t) ==
    {ij \in (1..Len(t)) \X (1..Len(t)) :
        /\ ij[1] <= ij[2]
        /\ ij[2] < Len(t)
        /\ IsSymbolText(SubSeq(t, 1, ij[1]))
        /\ IsSpaceText(SubSeq(t, ij[1] + 1, ij[2]))
        /\ IsQuantityText(SubSeq(t, ij[2] + 1, Len(t)))}

\* The ways to read t as quantity, spaces, symbol: the quantity is the first
\* i characters and is not followed by a character a quantity could take.
SymbolRightSplits(t) ==
    {ij \in (1..Len(t)) \X (1..Len(t)) :
        /\ ij[1] <= ij[2]
        /\ ij[2] < Len(t)
        /\ IsQuantityText(SubSeq(t, 1, ij[1]))
        /\ t[ij[1] + 1] \notin Digit \cup {Chr(","), Chr(".")}
        /\ IsSpaceText(SubSeq(t, ij[1] + 1, ij[2]))
        /\ IsSymbolText(SubSeq(t, ij[2] + 1, Len(t)))}

(***************************************************************************)
(* C1                                                                      *)
(***************************************************************************)
\* C1: when amount succeeds, the text it consumed reads in exactly one way,
\* either as symbol, spaces, quantity or as quantity, spaces, symbol; the
\* format is SymbolLeft* in the first case and SymbolRight* in the second,
\* *WithSpace when the run of spaces and tabs between the two is not empty
\* and *NoSpace when it is; the value is the quantity text without its commas
\* and the symbol is the symbol read.
C1_FormatDetection ==
    Succeeded("amount") =>
        LET t == ConsumedText
            a == last.res.val
            L == SymbolLeftSplits(t)
            R == SymbolRightSplits(t)
        IN  /\ Cardinality(L) + Cardinality(R) = 1
            /\ \A ij \in L :
                /\ a.format = IF ij[2] > ij[1] THEN "SymbolLeftWithSpace"
                              ELSE "SymbolLeftNoSpace"
                /\ a.symbol = SymbolOfText(SubSeq(t, 1, ij[1]))
                /\ a.value = WithoutCommas(SubSeq(t, ij[2] + 1, Len(t)))
            /\ \A ij \in R :
                /\ a.format = IF ij[2] > ij[1] THEN "SymbolRightWithSpace"
                              ELSE "SymbolRightNoSpace"
                /\ a.symbol = SymbolOfText(SubSeq(t, ij[2] + 1, Len(t)))
                /\ a.value = WithoutCommas(SubSeq(t, 1, ij[1]))

\* An amount with the symbol first, a space, and a quantity that ends with a
\* comma.
C1_Witness ==
    /\ Succeeded("amount")
    /\ last.res.val.format = "SymbolLeftWithSpace"
    /\ ConsumedText[Len(ConsumedText)] = Chr(",")

(***************************************************************************)
(* C2                                                                      *)
(***************************************************************************)
\* C2: on every input at most one of the two orderings succeeds when run
\* alone, an input that starts with a digit or '-' is never read symbol
\* first, and amount returns the result of the ordering that succeeds alone
\* and fails only when both fail alone.
C2_PriorityNeverWrong ==
    Ran("amount") =>
        LET a1 == amount_symbol_then_quantity(input, last.start)
            a2 == amount_quantity_then_symbol(input, last.start)
            r  == last.res
        IN  /\ ~(IsOk(a1) /\ IsOk(a2))
            /\ (Len(Rest) > 0 /\ Rest[1] \in Digit \cup {Chr("-")}) => ~IsOk(a1)
            /\ IsOk(a1) => (IsOk(r) /\ r.val = a1.val /\ r.st = a1.st)
            /\ IsOk(a2) => (IsOk(r) /\ r.val = a2.val /\ r.st = a2.st)
            /\ (~IsOk(a1) /\ ~IsOk(a2)) => ~IsOk(r)

\* The first ordering failed after consuming input, so the second was not
\* tried.
C2_Witness ==
    /\ Ran("amount")
    /\ LET a1 == amount_symbol_then_quantity(input, last.start)
       IN  IsErr(a1) /\ a1.consumed
    /\ IsErr(last.res)

(***************************************************************************)
(* C6                                                                      *)
(***************************************************************************)
\* C6: when quantity succeeds with output q, q has no comma and is the
\* consumed text with its commas removed, and quantity run on q alone
\* succeeds, consumes all of q and returns q.
C6_QuantityNormalization ==
    Succeeded("quantity") =>
        LET q == last.res.val
            again == quantity(q, StartState)
        IN  /\ NoneIn(q, {Chr(",")})
            /\ q = WithoutCommas(ConsumedText)
            /\ IsOk(again)
            /\ again.st.pos = Len(q)
            /\ again.val = q

\* A negative quantity whose text holds a comma and a decimal point.
C6_Witness ==
    /\ Succeeded("quantity")
    /\ ConsumedText[1] = Chr("-")
    /\ \E i \in 1..Len(ConsumedText) : ConsumedText[i] = Chr(",")
    /\ \E i \in 1..Len(ConsumedText) : ConsumedText[i] = Chr(".")

(***************************************************************************)
(* C7                                                                      *)
(***************************************************************************)
Max(a, b) == IF a >= b THEN a ELSE b

\* The two alternatives of the choice that parser `name` is made of, run
\* alone from st.
Alternatives(name, inp, st) ==
    CASE name = "amount" ->
            <<amount_symbol_then_quantity(inp, st), amount_quantity_then_symbol(inp, st)>>
      [] name = "symbol" -> <<quoted_symbol(inp, st), unquoted_symbol(inp, st)>>
      [] name = "status" -> <<Char(Chr("*"), inp, st), Char(Chr("!"), inp, st)>>
      [] name = "line_ending" -> <<crlf(inp, st), newline(inp, st)>>

Choices == {"amount", "symbol", "status", "line_ending"}

\* C7: when a symbol and the optional spaces after it are read and the
\* quantity that follows fails, amount fails at the position where the
\* quantity failed, which lies after the start of the amount; and every
\* choice that fails reports the position of the alternative that went
\* furthest into the input.
C7_FurthestFailure ==
    /\ Ran("amount") =>
        LET s == symbol(input, last.start)
            w == Optional(whitespace(input, s.st), s.st)
            q == quantity(input, w.st)
        IN  (IsOk(s) /\ IsErr(q)) =>
                /\ IsErr(last.res)
                /\ last.res.st.pos = q.st.pos
                /\ last.res.st.pos > last.start.pos
    /\ \A name \in Choices :
        (Ran(name) /\ IsErr(last.res)) =>
            LET alts == Alternatives(name, input, last.start)
            IN  /\ IsErr(alts[1])
                /\ IsErr(alts[2])
                /\ last.res.st.pos = Max(alts[1].st.pos, alts[2].st.pos)

\* The quantity fails after its '-', two characters after a one-character
\* symbol and a space.
C7_Witness ==
    /\ Ran("amount")
    /\ IsErr(last.res)
    /\ LET s == symbol(input, last.start)
           w == Optional(whitespace(input, s.st), s.st)
           q == quantity(input, w.st)
       IN  IsOk(s) /\ w.st.pos > s.st.pos /\ IsErr(q) /\ q.st.pos > w.st.pos

(***************************************************************************)
(* C10                                                                     *)
(***************************************************************************)
\* C10: line_ending on CR LF consumes the two characters, on LF the one
\* character, returns the single line feed in both cases, and fails on
\* anything else: the empty input, a CR that no LF follows, any other
\* character.
C10_LineEnding ==
    Ran("line_ending") =>
        LET t == Rest
            r == last.res
        IN  IF Len(t) >= 2 /\ t[1] = CR /\ t[2] = LF
            THEN IsOk(r) /\ r.st.pos = last.start.pos + 2 /\ r.val = <<LF>>
            ELSE IF Len(t) >= 1 /\ t[1] = LF
            THEN IsOk(r) /\ r.st.pos = last.start.pos + 1 /\ r.val = <<LF>>
            ELSE IsErr(r) /\ cur = last.start

\* A CR LF read and a second line ending left in the remainder.
C10_Witness ==
    /\ Succeeded("line_ending")
    /\ Rest[1] = CR
    /\ last.res.st.pos = 2
    /\ Len(input) > 2
    /\ input[3] = LF

(***************************************************************************)
(* C9                                                                      *)
(***************************************************************************)
\* The 1-based line of the character after the first n characters of t.
LineAfter(t, n) == 1 + Cardinality({i \in 1..n : t[i] = LF})

\* C9: line_number consumes nothing and returns the 1-based line of the
\* place where it stands; every Header carries the line on which its first
\* character lies, 1 plus the line feeds before it, whatever the header
\* reads afterwards.
C9_LineNumber ==
    /\ Ran("line_number") =>
        /\ IsOk(last.res)
        /\ ~last.res.consumed
        /\ last.res.st = last.start
        /\ cur = last.start
        /\ last.res.val = LineAfter(input, last.start.pos)
    /\ Succeeded("header") =>
        last.res.val.line_number = LineAfter(input, last.start.pos)

\* A header that starts on line 2, after a CR LF, and that has a code and a
\* comment.
C9_Witness ==
    /\ Succeeded("header")
    /\ last.start.pos = 2
    /\ input[1] = CR
    /\ last.res.val.line_number = 2
    /\ last.res.val.code # None
    /\ last.res.val.comment # None
    /\ last.res.st.pos > last.start.pos

(***************************************************************************)
(* C3                                                                      *)
(***************************************************************************)
\* t without its characters from..to.
Without(t, from, to) == SubSeq(t, 1, from - 1) \o SubSeq(t, to + 1, Len(t))

\* The state after the date, the status and the spaces that follow each:
\* the place where the code, if there is one, starts.
AfterStatus(inp, st) ==
    status_then_whitespace(inp, date_then_whitespace(inp, st).st)

\* The input of the last header without its code and the spaces after it.
InputWithoutCode ==
    LET s == AfterStatus(input, last.start)
        c == code_then_whitespace(input, s.st)
    IN  Without(input, s.st.pos + 1, c.st.pos)

\* The input of the last header without the ';' and the comment text, which
\* are the last characters the header consumed.
InputWithoutComment ==
    Without(input, last.res.st.pos - Len(last.res.val.comment[1]), last.res.st.pos)

CodeRemovalHolds ==
    LET r == header(InputWithoutCode, last.start)
    IN  IsOk(r) /\ r.val = [last.res.val EXCEPT !.code = None]

CommentRemovalHolds ==
    LET r == header(InputWithoutComment, last.start)
    IN  IsOk(r) /\ r.val = [last.res.val EXCEPT !.comment = None]

\* C3 as claimed: a header that parses with a code parses without the code
\* and the spaces after it to the same Header with the code absent; a header
\* that parses with a comment parses without the ';' and the comment text to
\* the same Header with the comment absent.
C3_OmittingAsClaimed ==
    /\ (Succeeded("header") /\ last.res.val.code # None) => CodeRemovalHolds
    /\ (Succeeded("header") /\ last.res.val.comment # None) => CommentRemovalHolds

\* C3 as amended: the first half holds for the headers whose payee does not
\* start with '(' (such a payee is read as a code, or as the start of one,
\* once the code before it is gone); the second half holds as claimed.
C3_Omitting ==
    /\ (/\ Succeeded("header")
        /\ last.res.val.code # None
        /\ last.res.val.payee[1] # Chr("(")) => CodeRemovalHolds
    /\ (Succeeded("header") /\ last.res.val.comment # None) => CommentRemovalHolds

\* A header with a code, a payee that does not start with '(' and a comment.
C3_Witness ==
    /\ Succeeded("header")
    /\ last.res.val.code # None
    /\ last.res.val.payee[1] # Chr("(")
    /\ Len(last.res.val.payee) > 1
    /\ last.res.val.comment # None
    /\ Len(last.res.val.comment[1]) > 0

(***************************************************************************)
(* C5                                                                      *)
(***************************************************************************)
\* The lines of t: the texts between its line endings, a line ending being
\* a line feed together with the carriage return right before it, if any.
RECURSIVE LinesFrom(_, _, _)
LinesFrom(t, i, line) ==
    IF i > Len(t) THEN <<line>>
    ELSE IF t[i] = LF THEN <<line>> \o LinesFrom(t, i + 1, <<>>)
    ELSE IF t[i] = CR /\ i < Len(t) /\ t[i + 1] = LF
         THEN <<line>> \o LinesFrom(t, i + 2, <<>>)
    ELSE LinesFrom(t, i + 1, Append(line, t[i]))

Lines(t) == LinesFrom(t, 1, <<>>)

\* A text that price reads from end to end.
IsPriceRecord(t) ==
    LET r == price(t, StartState) IN IsOk(r) /\ r.st.pos = Len(t)

\* C5: price_db on the empty input yields the empty sequence; on N >= 1
\* valid Price records with one line ending between each two, it yields N
\* values, the i-th being the parse of the i-th record.
C5_PriceDatabase ==
    (Ran("price_db") /\ last.start = StartState) =>
        LET ls == Lines(input)
            r  == last.res
        IN  /\ input = <<>> => (IsOk(r) /\ r.val = <<>>)
            /\ (\A i \in 1..Len(ls) : IsPriceRecord(ls[i])) =>
                /\ IsOk(r)
                /\ Len(r.val) = Len(ls)
                /\ \A i \in 1..Len(ls) : r.val[i] = price(ls[i], StartState).val
                /\ r.st.pos = Len(input)

\* Two valid records with a CR LF between them, read to the end.
C5_Witness ==
    /\ Succeeded("price_db")
    /\ last.start = StartState
    /\ Len(last.res.val) >= 2
    /\ \A i \in 1..Len(Lines(input)) : IsPriceRecord(Lines(input)[i])
    /\ \E i \in 1..Len(input) : input[i] = CR
    /\ last.res.val[1] # last.res.val[2]

(***************************************************************************)
(* C4                                                                      *)
(***************************************************************************)
\* C4: every parse ends with a value and a remainder or with a returned
\* failure; none ends in a panic.
C4_NoPanic ==
    /\ last.res.kind \in {"ok", "err"}
    /\ pc # "aborted"

(***************************************************************************)
(* C8                                                                      *)
(***************************************************************************)
\* The number of digits t starts with.
RECURSIVE LeadingDigits(_)
LeadingDigits(t) ==
    IF t # <<>> /\ Head(t) \in Digit THEN 1 + LeadingDigits(Tail(t)) ELSE 0

\* The decimal digits of n > 0, without leading zeros; none for 0.
RECURSIVE Decimal(_)
Decimal(n) ==
    IF n = 0 THEN <<>>
    ELSE Append(Decimal(n \div 10), CHOOSE c \in Digit : to_digit(c) = n % 10)

RECURSIVE WithoutLeadingZeros(_)
WithoutLeadingZeros(t) ==
    IF t # <<>> /\ Head(t) = Chr("0") THEN WithoutLeadingZeros(Tail(t)) ELSE t

\* t starts with digit+ '-' digit digit '-' digit digit, the year having k
\* digits.
HasDatePrefix(t, k) ==
    /\ k >= 1
    /\ Len(t) >= k + 6
    /\ t[k + 1] = Chr("-")
    /\ t[k + 2] \in Digit
    /\ t[k + 3] \in Digit
    /\ t[k + 4] = Chr("-")
    /\ t[k + 5] \in Digit
    /\ t[k + 6] \in Digit

\* C8: date succeeds on every input that starts with digit+ '-' digit digit
\* '-' digit digit, whatever the number of year digits; the year is the value
\* of the year digits, month and day are tens * 10 + ones, unchecked; date
\* consumes that prefix and no more.
C8_DateAnyYear ==
    Ran("date") =>
        LET t == Rest
            k == LeadingDigits(t)
            r == last.res
        IN  HasDatePrefix(t, k) =>
                /\ IsOk(r)
                /\ r.st.pos = last.start.pos + k + 6
                /\ Decimal(r.val.year) = WithoutLeadingZeros(SubSeq(t, 1, k))
                /\ r.val.month = to_digit(t[k + 2]) * 10 + to_digit(t[k + 3])
                /\ r.val.day = to_digit(t[k + 5]) * 10 + to_digit(t[k + 6])

(***************************************************************************)
(* C11                                                                     *)
(***************************************************************************)
\* The input from its (k + 1)-th character on.
From(k) == SubSeq(input, k + 1, Len(input))

\* The first k characters of the input are N >= 1 valid Price records, one
\* per line.
RecordsUpTo(k) ==
    /\ k >= 1
    /\ \A i \in 1..Len(Lines(SubSeq(input, 1, k))) :
           IsPriceRecord(Lines(SubSeq(input, 1, k))[i])

\* A line ending stands right after the first k characters.
LineEndingAt(k) == IsOk(line_ending(input, [StartState EXCEPT !.pos = k]))

\* The text after the line ending that stands right after the first k
\* characters.
AfterLineEndingAt(k) ==
    From(line_ending(input, [StartState EXCEPT !.pos = k]).st.pos)

\* price reads no record at the start of t.
NoRecordAt(t) == ~IsOk(price(t, StartState))

\* Records up to k, then a line ending, then the end of the input or a text
\* that is not a Price record.
CommittedAt(k) ==
    /\ RecordsUpTo(k)
    /\ LineEndingAt(k)
    /\ NoRecordAt(AfterLineEndingAt(k))

\* C11: price_db on N >= 1 valid Price records followed by a line ending,
\* and then by the end of the input or by a text that is not a Price record,
\* returns a failure; when price_db succeeds on records and leaves a
\* remainder, the remainder does not start with a line ending.
C11_SeparatorCommits ==
    (Ran("price_db") /\ last.start = StartState) =>
        /\ (\E k \in 1..Len(input) : CommittedAt(k)) => IsErr(last.res)
        /\ (/\ IsOk(last.res)
            /\ Len(last.res.val) >= 1
            /\ last.res.st.pos < Len(input)) => ~LineEndingAt(last.res.st.pos)

\* The same with a panic taken for a failure: price_db never succeeds across
\* a committed line ending.
C11_ReturnedOrPanic ==
    (Ran("price_db") /\ last.start = StartState) =>
        /\ (\E k \in 1..Len(input) : CommittedAt(k)) => ~IsOk(last.res)
        /\ (/\ IsOk(last.res)
            /\ Len(last.res.val) >= 1
            /\ last.res.st.pos < Len(input)) => ~LineEndingAt(last.res.st.pos)

====
